---- MODULE Spec2Model ----
(***************************************************************************)
(* Metadata-resolution core of mediadb_gui (src/app.py): the barcode path  *)
(* (lookup_barcode -> detect_and_lookup -> lookup_isbn /                   *)
(* lookup_upc_musicbrainz / lookup_upc_tmdb), the photo path               *)
(* (process_image -> process_image_for_media) and the text heuristic       *)
(* parser (parse_media_text).                                              *)
(*                                                                         *)
(* Python strings are sequences of one-character strings, so that strip,   *)
(* lower, split, replace, "in" and re.findall are computed on characters.  *)
(* An optional value (None or a value) is <<>> or <<v>>.                   *)
(***************************************************************************)
EXTENDS Integers, Sequences, FiniteSets, TLC

VARIABLES
    pc,          \* "idle" | "wait" (an outbound call is in flight) | "done"
    endpoint,    \* route of the request being served
    body,        \* shape of the parsed JSON body: data of request.get_json
    request,     \* the field of the JSON body the route reads
    calls,       \* outbound network calls of this request, in order
    response,    \* (body, status) returned by the route
    tmdb_key,    \* os.environ TMDB_API_KEY
    vision_key,  \* app.config GOOGLE_VISION_API_KEY
    annotations, \* data['responses'][0] of the vision call, once received
    text,        \* input of parse_media_text
    extracted,   \* result of parse_media_text
    parsed       \* parse_media_text has returned

vars == <<pc, endpoint, body, request, calls, response, tmdb_key, vision_key,
          annotations, text, extracted, parsed>>

handlerVars ==
    <<pc, endpoint, body, request, calls, response, tmdb_key, vision_key,
      annotations>>
parserVars == <<text, extracted, parsed>>

None == <<>>
Some(v) == <<v>>

(***************************************************************************)
(* Bounds of the model.                                                    *)
(***************************************************************************)
MaxLen == 14      \* longest run of characters in a barcode
MaxLabels == 2    \* object labels in one vision response
MaxScore == 2     \* scores are k / MaxScore, k in 0..MaxScore
MaxLines == 2     \* lines of a recognised text

(***************************************************************************)
(* Python str operations, on sequences of characters.                      *)
(***************************************************************************)
Whitespace == {" ", "\t", "\n"}
DigitChars == {"0", "1", "2", "3", "4", "5", "6", "7", "8", "9"}
UpperChars ==
    <<"A", "B", "C", "D", "E", "F", "G", "H", "I", "J", "K", "L", "M",
      "N", "O", "P", "Q", "R", "S", "T", "U", "V", "W", "X", "Y", "Z">>
LowerChars ==
    <<"a", "b", "c", "d", "e", "f", "g", "h", "i", "j", "k", "l", "m",
      "n", "o", "p", "q", "r", "s", "t", "u", "v", "w", "x", "y", "z">>

lowerChar(c) ==
    IF \E i \in 1..Len(UpperChars) : UpperChars[i] = c
    THEN LowerChars[CHOOSE i \in 1..Len(UpperChars) : UpperChars[i] = c]
    ELSE c

lower(s) == [i \in 1..Len(s) |-> lowerChar(s[i])]

isdigit(c) == c \in DigitChars

\* \w of the re module
isWordChar(c) ==
    \/ c \in DigitChars
    \/ c = "_"
    \/ \E i \in 1..Len(LowerChars) : LowerChars[i] = c \/ UpperChars[i] = c

RECURSIVE lstrip(_)
lstrip(s) ==
    IF s # <<>> /\ Head(s) \in Whitespace THEN lstrip(Tail(s)) ELSE s

RECURSIVE rstrip(_)
rstrip(s) ==
    IF s # <<>> /\ s[Len(s)] \in Whitespace
    THEN rstrip(SubSeq(s, 1, Len(s) - 1))
    ELSE s

strip(s) == rstrip(lstrip(s))

\* sub occurs in s at position i
occursAt(s, sub, i) ==
    /\ i >= 1
    /\ i + Len(sub) - 1 <= Len(s)
    /\ SubSeq(s, i, i + Len(sub) - 1) = sub

\* the "in" operator on strings
contains(s, sub) == \E i \in 1..(Len(s) + 1) : occursAt(s, sub, i)

startswith(s, prefix) == occursAt(s, prefix, 1)

\* s.replace(old, ''): every non-overlapping occurrence, left to right
RECURSIVE replace(_, _)
replace(s, old) ==
    IF s = <<>> THEN <<>>
    ELSE IF occursAt(s, old, 1)
         THEN replace(SubSeq(s, Len(old) + 1, Len(s)), old)
         ELSE <<Head(s)>> \o replace(Tail(s), old)

\* s.split(sep) for a one-character separator: cur is the piece being read
RECURSIVE splitOn(_, _, _)
splitOn(s, sep, cur) ==
    IF s = <<>> THEN <<cur>>
    ELSE IF Head(s) = sep
         THEN <<cur>> \o splitOn(Tail(s), sep, <<>>)
         ELSE splitOn(Tail(s), sep, Append(cur, Head(s)))

\* s.split(): the maximal runs of non-whitespace characters
RECURSIVE splitWords(_, _)
splitWords(s, cur) ==
    IF s = <<>> THEN (IF cur = <<>> THEN <<>> ELSE <<cur>>)
    ELSE IF Head(s) \in Whitespace
         THEN (IF cur = <<>> THEN <<>> ELSE <<cur>>) \o splitWords(Tail(s), <<>>)
         ELSE splitWords(Tail(s), Append(cur, Head(s)))

split(s) == splitWords(s, <<>>)

(***************************************************************************)
(* parse_media_text (src/app.py 315-339).                                  *)
(***************************************************************************)
S_by ==
    <<"b", "y", " ">>
S_isbn ==
    <<"i", "s", "b", "n">>
S_copyright ==
    <<"c", "o", "p", "y", "r", "i", "g", "h", "t">>

\* \b of the re module at the gap before position i
wordBoundary(s, i) ==
    LET before == i > 1 /\ isWordChar(s[i - 1])
        after == i <= Len(s) /\ isWordChar(s[i])
    IN  before # after

\* \b(19|20)\d{2}\b matches at position i
yearMatchAt(s, i) ==
    /\ i + 3 <= Len(s)
    /\ wordBoundary(s, i)
    /\ SubSeq(s, i, i + 1) \in {<<"1", "9">>, <<"2", "0">>}
    /\ isdigit(s[i + 2])
    /\ isdigit(s[i + 3])
    /\ wordBoundary(s, i + 4)

\* re.findall with one capturing group: the list of what group 1 matched,
\* for the non-overlapping matches from left to right
RECURSIVE findallFrom(_, _)
findallFrom(s, i) ==
    IF i > Len(s) THEN <<>>
    ELSE IF yearMatchAt(s, i)
         THEN <<SubSeq(s, i, i + 1)>> \o findallFrom(s, i + 4)
         ELSE findallFrom(s, i + 1)

findall(s) == findallFrom(s, 1)

\* lines = [line.strip() for line in text.split('\n') if line.strip()]
splitLines(t) ==
    LET raw == splitOn(t, "\n", <<>>)
        stripped == [i \in 1..Len(raw) |-> strip(raw[i])]
    IN  SelectSeq(stripped, LAMBDA l : l # <<>>)

\* truth value of extracted.get(key)
truthy(opt) == opt # None /\ opt[1] # <<>>

NoExtracted == [title |-> None, author |-> None, year |-> None]

isAuthorLine(line) ==
    \/ contains(lower(line), S_by)
    \/ /\ Len(split(line)) = 2
       /\ ~ \E i \in 1..Len(line) : isdigit(line[i])

authorValue(line) == strip(replace(line, S_by))

\* a slip: no "if not extracted.get('author')", the last candidate wins
lineStep_LastAuthor(ex, line) ==
    LET a == IF isAuthorLine(line)
             THEN [ex EXCEPT !.author = Some(authorValue(line))]
             ELSE ex
        years == findall(line)
    IN  IF years # <<>> /\ ~ truthy(a.year)
        THEN [a EXCEPT !.year = Some(years[1])]
        ELSE a

\* body of "for line in lines"
lineStep(ex, line) ==
    LET a == IF isAuthorLine(line) /\ ~ truthy(ex.author)
             THEN [ex EXCEPT !.author = Some(authorValue(line))]
             ELSE ex
        years == findall(line)
    IN  IF years # <<>> /\ ~ truthy(a.year)
        THEN [a EXCEPT !.year = Some(years[1])]
        ELSE a

RECURSIVE scanLines(_, _)
scanLines(ex, lines) ==
    IF lines = <<>> THEN ex
    ELSE scanLines(lineStep(ex, Head(lines)), Tail(lines))

\* a slip: a line of 10 characters is long enough
isPotentialTitle_AtLeast10(line) ==
    /\ Len(line) >= 10
    /\ ~ startswith(lower(line), S_isbn)
    /\ ~ startswith(lower(line), S_by)
    /\ ~ startswith(lower(line), S_copyright)

\* len(line) > 10 and not line.lower().startswith(('isbn', 'by ', 'copyright'))
isPotentialTitle(line) ==
    /\ Len(line) > 10
    /\ ~ startswith(lower(line), S_isbn)
    /\ ~ startswith(lower(line), S_by)
    /\ ~ startswith(lower(line), S_copyright)

\* max(seq, key=len) of a non-empty list: the first of the longest
RECURSIVE maxByLen(_, _)
maxByLen(best, rest) ==
    IF rest = <<>> THEN best
    ELSE IF Len(Head(rest)) > Len(best)
         THEN maxByLen(Head(rest), Tail(rest))
         ELSE maxByLen(best, Tail(rest))

parse_media_text(t) ==
    LET lines == splitLines(t)
        ex == scanLines(NoExtracted, lines)
        potential_titles == SelectSeq(lines, isPotentialTitle)
    IN  IF potential_titles # <<>>
        THEN [ex EXCEPT !.title =
                 Some(maxByLen(Head(potential_titles), Tail(potential_titles)))]
        ELSE ex

(***************************************************************************)
(* Classification loop of process_image_for_media (src/app.py 278-293).    *)
(***************************************************************************)
KW_book ==
    <<"b", "o", "o", "k">>
KW_cd ==
    <<"c", "d">>
KW_disc ==
    <<"d", "i", "s", "c">>
KW_dvd ==
    <<"d", "v", "d">>
KW_bluray ==
    <<"b", "l", "u", "r", "a", "y">>
KW_video ==
    <<"v", "i", "d", "e", "o">>

\* media_type = None; confidence = 0
NoBest == [media_type |-> "None", confidence |-> 0]

\* a slip: a tie replaces the running best
exceeds_OrEqual(score, confidence) == score >= confidence

\* a slip: the score is not compared, the last matching label wins
exceeds_Always(score, confidence) == TRUE

\* score > confidence
exceeds(score, confidence) == score > confidence

\* a slip: the audio branch sets the media type and leaves the confidence
classifyStep_StaleConfidence(best, obj) ==
    LET name == lower(obj.name)
        score == obj.score
    IN  IF contains(name, KW_book) /\ exceeds(score, best.confidence)
        THEN [media_type |-> "book", confidence |-> score]
        ELSE IF (contains(name, KW_cd) \/ contains(name, KW_disc))
                /\ exceeds(score, best.confidence)
        THEN [media_type |-> "audio", confidence |-> best.confidence]
        ELSE IF (contains(name, KW_dvd) \/ contains(name, KW_bluray)
                 \/ contains(name, KW_video))
                /\ exceeds(score, best.confidence)
        THEN [media_type |-> "video", confidence |-> score]
        ELSE best

\* body of "for obj in objects"
classifyStep(best, obj) ==
    LET name == lower(obj.name)
        score == obj.score
    IN  IF contains(name, KW_book) /\ exceeds(score, best.confidence)
        THEN [media_type |-> "book", confidence |-> score]
        ELSE IF (contains(name, KW_cd) \/ contains(name, KW_disc))
                /\ exceeds(score, best.confidence)
        THEN [media_type |-> "audio", confidence |-> score]
        ELSE IF (contains(name, KW_dvd) \/ contains(name, KW_bluray)
                 \/ contains(name, KW_video))
                /\ exceeds(score, best.confidence)
        THEN [media_type |-> "video", confidence |-> score]
        ELSE best

\* "for obj in objects", from the running best
RECURSIVE classifyFrom(_, _)
classifyFrom(best, objects) ==
    IF objects = <<>> THEN best
    ELSE classifyFrom(classifyStep(best, Head(objects)), Tail(objects))

\* media_type and confidence after the loop
classify(objects) == classifyFrom(NoBest, objects)

\* media_type or 'book'
orBook(media_type) == IF media_type = "None" THEN "book" ELSE media_type

(***************************************************************************)
(* Inputs: request fields, configuration, provider behaviour.              *)
(***************************************************************************)
Chars(n, c) == [i \in 1..n |-> c]

\* whitespace a scanner or a form may leave around a barcode
LeadingPads == {<<>>, <<" ">>}
TrailingPads == {<<>>, <<"\n">>}

\* barcodes: a run of characters, padded with whitespace or holding a space
BarcodeStrings ==
    { l \o Chars(n, "7") \o t :
          l \in LeadingPads, t \in TrailingPads, n \in 0..MaxLen }
    \cup { <<"7", " ">> \o Chars(n, "7") : n \in 1..(MaxLen - 2) }

\* the value of a field of the JSON body: absent, a string, or a number
Absent == [kind |-> "absent", value |-> <<>>]
Number == [kind |-> "number", value |-> <<>>]
Str(v) == [kind |-> "str", value |-> v]

\* what request.get_json(force=True) returns for a body that parses as JSON:
\* an object (empty or not), null, an array (empty or not), a non-empty
\* string, a number other than 0, true
Bodies == {"object", "null", "empty_array", "array", "string", "number", "true"}

\* the fields an object body may carry; no other body carries a field
FieldsOf(b, fields) == IF b = "object" THEN fields ELSE {Absent}

BarcodeFields == {Absent, Number} \cup { Str(b) : b \in BarcodeStrings }

\* data URIs: header, comma, base64 payload of the letter Q
ImageStrings ==
    { <<>>,
      <<"h", ",", "Q", "Q", "Q", "Q">>,
      <<"h", "Q", "Q", "Q", "Q">>,
      <<"h", ",", "Q", "Q">> }

ImageFields == {Absent, Number} \cup { Str(i) : i \in ImageStrings }

\* a credential: unset, set to the empty string, set
Keys == {None, Some(<<>>), Some(<<"k">>)}

N_Book ==
    <<"B", "o", "o", "k">>
N_CD ==
    <<"C", "D">>
N_DVDCase ==
    <<"D", "V", "D", " ", "c", "a", "s", "e">>
N_VideoDisc ==
    <<"V", "i", "d", "e", "o", " ", "d", "i", "s", "c">>
N_Table ==
    <<"T", "a", "b", "l", "e">>

LabelNames == {N_Book, N_CD, N_DVDCase, N_VideoDisc, N_Table}
Labels == [name : LabelNames, score : 0..MaxScore]

RECURSIVE SeqsUpTo(_, _)
SeqsUpTo(S, n) ==
    IF n = 0 THEN {<<>>}
    ELSE LET shorter == SeqsUpTo(S, n - 1)
         IN  shorter \cup { Append(q, x) : q \in shorter, x \in S }

LabelSeqs == SeqsUpTo(Labels, MaxLabels)

L_JaneDoe ==
    <<"J", "a", "n", "e", " ", "D", "o", "e">>
L_TheGreatBook ==
    <<"T", "h", "e", " ", "G", "r", "e", "a", "t", " ", "B", "o", "o", "k">>
L_TheOtherBook ==
    <<"T", "h", "e", " ", "O", "t", "h", "e", "r", " ", "B", "o", "o", "k">>
L_byJohnSmith ==
    <<"b", "y", " ", "J", "o", "h", "n", " ", "S", "m", "i", "t", "h">>
L_byJohnSmithPadded ==
    <<" ", " ", "b", "y", " ", "J", "o", "h", "n", " ", "S", "m", "i", "t", "h", " ", "\t">>
L_Copyright1999 ==
    <<"C", "o", "p", "y", "r", "i", "g", "h", "t", " ", "1", "9", "9", "9", " ", "J", "a", "n", "e", " ", "D", "o", "e", ",", " ", "p", "u", "b", "l", "i", "s", "h", "e", "d", " ", "2", "0", "0", "5">>
L_WrittenByJohnSmith ==
    <<"W", "r", "i", "t", "t", "e", "n", " ", "b", "y", " ", "J", "o", "h", "n", " ", "S", "m", "i", "t", "h">>
L_DerbyKate ==
    <<"D", "e", "r", "b", "y", " ", "K", "a", "t", "e">>
L_BYAnn ==
    <<"B", "Y", " ", "A", "n", "n">>
L_Isbn ==
    <<"I", "S", "B", "N", " ", "9", "7", "8", "0", "1", "3", "1", "1", "0", "3", "6", "2", "7">>
L_Published2005 ==
    <<"P", "u", "b", "l", "i", "s", "h", "e", "d", " ", "2", "0", "0", "5">>
L_Ten ==
    <<"a", "b", "c", "d", "e", "f", "g", "h", "i", "j">>
L_Eleven ==
    <<"a", "b", "c", "d", "e", "f", "g", "h", "i", "j", "k">>
L_Blank ==
    <<" ", " ", " ">>
L_NoBoundary ==
    <<"a", "1", "9", "9", "9", "b", " ", "1", "2", "0", "0", "5">>
L_copyrightNotice ==
    <<"c", "o", "p", "y", "r", "i", "g", "h", "t", " ", "n", "o", "t", "i", "c", "e">>

LinePool ==
    { L_JaneDoe, L_TheGreatBook, L_TheOtherBook, L_byJohnSmith,
      L_byJohnSmithPadded, L_Copyright1999, L_WrittenByJohnSmith, L_DerbyKate,
      L_BYAnn, L_Isbn, L_Published2005, L_Ten, L_Eleven, L_Blank,
      L_NoBoundary, L_copyrightNotice }

\* '\n'.join(ls)
RECURSIVE joinLines(_)
joinLines(ls) ==
    IF ls = <<>> THEN <<>>
    ELSE IF Len(ls) = 1 THEN ls[1]
    ELSE ls[1] \o <<"\n">> \o joinLines(Tail(ls))

T_AuthorExample == joinLines(<<L_JaneDoe, L_TheGreatBook, L_byJohnSmith>>)

\* recognised texts: up to MaxLines lines of the pool, and the three-line example
Texts ==
    { joinLines(ls) : ls \in SeqsUpTo(LinePool, MaxLines) } \cup {T_AuthorExample}

\* text blocks a vision response carries: none, or one description
VisionTexts == {None, Some(L_JaneDoe)}

\* data['responses'][0]: the object labels and the text block
Annotations == [objects : LabelSeqs, text : VisionTexts]

(***************************************************************************)
(* Responses of the two routes.                                            *)
(***************************************************************************)
NoResponse == [status |-> 0, error |-> "", body |-> None]
ErrorResponse(st, msg) == [status |-> st, error |-> msg, body |-> None]
OkResponse(b) == [status |-> 200, error |-> "", body |-> Some(b)]

NoAnnotations == [objects |-> <<>>, text |-> None]

\* "if not x" on a field of the JSON body
falsy(f) == f.kind = "absent" \/ (f.kind = "str" /\ f.value = <<>>)

\* "if data" is false: null and the empty array (the empty object is the
\* object body without the field)
dataFalsy(b, field) ==
    \/ b \in {"null", "empty_array"}
    \/ b = "object" /\ field.kind = "absent"

\* data.get(...) raises AttributeError: data is true and is not a dict
getRaises(b, field) == b # "object" /\ ~ dataFalsy(b, field)

\* the framework's answer to an exception that leaves the view function
InternalServerError == ErrorResponse(500, "Internal Server Error")

\* the call in flight
inflight == calls[Len(calls)].provider

\* an outbound call is sent: the handler blocks on it
Issue(cs, p) ==
    /\ pc' = "wait"
    /\ calls' = Append(cs, [provider |-> p, outcome |-> "pending"])
    /\ response' = NoResponse

\* the route returns
Return(cs, r) ==
    /\ pc' = "done"
    /\ calls' = cs
    /\ response' = r

(***************************************************************************)
(* Barcode path (src/app.py 131-240, 375-413).                             *)
(***************************************************************************)
\* how one HTTP exchange with a lookup provider ends
Outcomes == {"exception", "timeout", "non_ok", "malformed", "empty", "match"}

\* timeout= argument of the requests call to each endpoint
Timeout(p) ==
    CASE p = "google_books" -> Some(5)
      [] p = "openlibrary" -> Some(5)
      [] p = "musicbrainz" -> Some(5)
      [] p = "tmdb" -> Some(5)
      [] p = "vision" -> None

\* the dict a lookup function builds from a matching payload
payload(p, bc) ==
    LET f(name) == Some(<<p, name>>)
    IN  CASE p \in {"google_books", "openlibrary"} ->
               [title |-> f("title"), author |-> f("author"),
                publisher |-> f("publisher"), year |-> f("year"),
                isbn |-> Some(bc), artist |-> None, upc |-> None]
          [] p = "musicbrainz" ->
               [title |-> f("title"), author |-> None, publisher |-> None,
                year |-> f("year"), isbn |-> None, artist |-> f("artist"),
                upc |-> Some(bc)]
          [] p = "tmdb" ->
               [title |-> f("title"), author |-> None, publisher |-> None,
                year |-> f("year"), isbn |-> None, artist |-> None,
                upc |-> Some(bc)]

\* the try block of a lookup function on an exchange that ended with o:
\* requests.get raises, r.ok is false, r.json() or a field access raises,
\* the payload holds no match, or a dict is returned
tryBlock(o) ==
    CASE o \in {"exception", "timeout", "malformed"} -> "raise"
      [] o \in {"non_ok", "empty"} -> "fall_through"
      [] o = "match" -> "return"

\* a slip: the try block has no except clause
lookup_NoExcept(p, o, bc) ==
    [raised |-> tryBlock(o) = "raise",
     res |-> IF tryBlock(o) = "return" THEN Some(payload(p, bc)) ELSE None]

\* one try/except block of lookup_isbn, lookup_upc_musicbrainz or
\* lookup_upc_tmdb: "except Exception: pass", then None
lookup(p, o, bc) ==
    [raised |-> FALSE,
     res |-> IF tryBlock(o) = "return" THEN Some(payload(p, bc)) ELSE None]

\* lookup_barcode 385-411: the route's answer to detect_and_lookup's result
barcodeResponse(barcode, meta) ==
    IF meta = None
    THEN ErrorResponse(404, "No metadata found for barcode")
    ELSE LET m == meta[1]
         IN  OkResponse(
                 [barcode |-> barcode,
                  media_type |-> m.media_type,
                  title |-> m.title,
                  year |-> m.year,
                  author |-> IF m.author # None THEN m.author ELSE m.artist,
                  isbn |-> m.isbn,
                  publisher |-> m.publisher,
                  artist |-> IF m.media_type = "audio" THEN m.artist ELSE None])

\* detect_and_lookup returns res with detected_type and media_type set
found(cs, barcode, res, detected_type, media_type) ==
    Return(cs, barcodeResponse(barcode,
               Some([title |-> res[1].title, author |-> res[1].author,
                     publisher |-> res[1].publisher, year |-> res[1].year,
                     isbn |-> res[1].isbn, artist |-> res[1].artist,
                     upc |-> res[1].upc, detected_type |-> detected_type,
                     media_type |-> media_type])))

\* detect_and_lookup falls off its end: return None
notFound(cs, barcode) == Return(cs, barcodeResponse(barcode, None))

\* a slip: the length is taken of the raw string
stripped_Raw(barcode) == barcode

\* bc = barcode.strip()
stripped(barcode) == strip(barcode)

\* lookup_upc_tmdb up to its network call
lookup_upc_tmdb(cs, barcode) ==
    IF ~ truthy(tmdb_key) THEN notFound(cs, barcode)
    ELSE Issue(cs, "tmdb")

\* a slip: the UPC lookups are tried whatever the length
upcBranch_AnyLength(cs, barcode, bc) == Issue(cs, "musicbrainz")

\* detect_and_lookup 225-240, up to the next network call
upcBranch(cs, barcode, bc) ==
    IF Len(bc) \in {12, 13} THEN Issue(cs, "musicbrainz")
    ELSE notFound(cs, barcode)

\* a slip: the UPC lookups are tried before the ISBN chain
detect_and_lookup_UpcFirst(cs, barcode) ==
    LET bc == stripped(barcode)
    IN  IF Len(bc) \in {12, 13} THEN Issue(cs, "musicbrainz")
        ELSE IF Len(bc) = 10 THEN Issue(cs, "google_books")
        ELSE notFound(cs, barcode)

\* detect_and_lookup 216-223, up to its first network call
detect_and_lookup(cs, barcode) ==
    LET bc == stripped(barcode)
    IN  IF Len(bc) \in {10, 13} THEN Issue(cs, "google_books")
        ELSE upcBranch(cs, barcode, bc)

\* a slip: lookup_isbn goes on to OpenLibrary whatever Google Books gave
afterLookup_NoEarlyReturn(cs, p, res, barcode, bc) ==
    CASE p = "google_books" -> Issue(cs, "openlibrary")
      [] p = "openlibrary" ->
           IF res # None THEN found(cs, barcode, res, "isbn", "book")
           ELSE upcBranch(cs, barcode, bc)
      [] p = "musicbrainz" ->
           IF res # None THEN found(cs, barcode, res, "upc", "audio")
           ELSE lookup_upc_tmdb(cs, barcode)
      [] p = "tmdb" ->
           IF res # None THEN found(cs, barcode, res, "upc", "video")
           ELSE notFound(cs, barcode)

\* what the handler does when the call to p has produced res: lookup_isbn
\* returns the dict of the catalog that matched (result is still {} when
\* OpenLibrary is reached) or goes on, and so does detect_and_lookup
afterLookup(cs, p, res, barcode, bc) ==
    CASE p = "google_books" ->
           IF res # None THEN found(cs, barcode, res, "isbn", "book")
           ELSE Issue(cs, "openlibrary")
      [] p = "openlibrary" ->
           IF res # None THEN found(cs, barcode, res, "isbn", "book")
           ELSE upcBranch(cs, barcode, bc)
      [] p = "musicbrainz" ->
           IF res # None THEN found(cs, barcode, res, "upc", "audio")
           ELSE lookup_upc_tmdb(cs, barcode)
      [] p = "tmdb" ->
           IF res # None THEN found(cs, barcode, res, "upc", "video")
           ELSE notFound(cs, barcode)

\* the call in flight ends with outcome o and the handler runs on to its
\* next call or to its return
lookupReturns(o) ==
    LET p == inflight
        cs == [calls EXCEPT ![Len(calls)].outcome = o]
        bc == stripped(request.value)
        r == lookup(p, o, bc)
    IN  IF r.raised
        THEN Return(cs, ErrorResponse(500, "Lookup error"))
        ELSE afterLookup(cs, p, r.res, request.value, bc)

\* POST /lookup_barcode, up to its first network call or its return
LookupBarcode ==
    /\ pc = "idle"
    /\ \E b \in Bodies : \E field \in FieldsOf(b, BarcodeFields) :
           /\ endpoint' = "lookup_barcode"
           /\ body' = b
           /\ request' = field
           /\ IF getRaises(b, field)
              THEN Return(<<>>, InternalServerError)
              ELSE IF falsy(field)
              THEN Return(<<>>, ErrorResponse(400, "barcode required"))
              ELSE IF field.kind # "str"
              THEN Return(<<>>, ErrorResponse(500, "Lookup error"))
              ELSE detect_and_lookup(<<>>, field.value)
    /\ UNCHANGED <<tmdb_key, vision_key, annotations, parserVars>>

\* a lookup provider answers, or the connection fails
ProviderResponds ==
    /\ pc = "wait"
    /\ endpoint = "lookup_barcode"
    /\ \E o \in Outcomes \ {"timeout"} : lookupReturns(o)
    /\ UNCHANGED <<endpoint, body, request, tmdb_key, vision_key, annotations,
                   parserVars>>

(***************************************************************************)
(* Photo path (src/app.py 243-312, 348-372).                               *)
(***************************************************************************)
\* how the exchange with the vision endpoint ends: requests.post raises,
\* the status is not 200, response.json() or a field access raises, the
\* body holds no 'responses', or annotations are returned
VisionOutcomes == {"exception", "timeout", "non_200", "malformed", "no_responses", "ok"}

\* base64.b64decode(image_data.split(',')[1]) raises
decodeRaises(image_data) ==
    LET parts == splitOn(image_data, ",", <<>>)
    IN  \/ Len(parts) < 2
        \/ Len(parts[2]) % 4 # 0

\* process_image_for_media 276-309: the dict built from the annotations
mediaFromAnnotations(result) ==
    LET objects == result.objects
        best == classify(objects)
        full_text == IF result.text # None THEN result.text[1] ELSE <<>>
        ex == parse_media_text(full_text)
    IN  [media_type |-> orBook(best.media_type),
         title |-> ex.title,
         author |-> ex.author,
         year |-> ex.year,
         full_text |-> full_text,
         confidence |-> best.confidence]

\* process_image 358-370: the route's answer to process_image_for_media
imageResponse(meta) ==
    IF meta.error # ""
    THEN ErrorResponse(500, meta.error)
    ELSE OkResponse([media_type |-> meta.media.media_type,
                     title |-> meta.media.title,
                     year |-> meta.media.year,
                     notes |-> meta.media.full_text,
                     author |-> meta.media.author,
                     confidence |-> meta.media.confidence])

failure(msg) == [error |-> msg, media |-> None]

\* process_image_for_media 268-312, from the end of the exchange on
visionReturns(o, result) ==
    CASE o \in {"exception", "timeout", "malformed"} -> failure("Vision API error")
      [] o = "non_200" -> failure("Vision API error")
      [] o = "no_responses" -> failure("No response from Vision API")
      [] o = "ok" -> [error |-> "", media |-> mediaFromAnnotations(result)]

\* a slip: only an unset key counts as missing
keyMissing_IsNone(api_key) == api_key = None

\* if not api_key
keyMissing(api_key) == ~ truthy(api_key)

\* POST /process_image, up to the vision call or its return
ProcessImage ==
    /\ pc = "idle"
    /\ \E b \in Bodies : \E field \in FieldsOf(b, ImageFields) :
           /\ endpoint' = "process_image"
           /\ body' = b
           /\ request' = field
           /\ IF getRaises(b, field)
              THEN Return(<<>>, InternalServerError)
              ELSE IF falsy(field)
              THEN Return(<<>>, ErrorResponse(400, "image required"))
              ELSE IF keyMissing(vision_key)
              THEN Return(<<>>, imageResponse(
                       failure("Google Vision API key not configured")))
              ELSE IF field.kind # "str" \/ decodeRaises(field.value)
              THEN Return(<<>>, imageResponse(failure("Vision API error")))
              ELSE Issue(<<>>, "vision")
    /\ UNCHANGED <<tmdb_key, vision_key, annotations, parserVars>>

\* the vision endpoint answers, or the connection fails
VisionResponds ==
    /\ pc = "wait"
    /\ endpoint = "process_image"
    /\ \E o \in VisionOutcomes \ {"timeout"} :
           \E result \in IF o = "ok" THEN Annotations ELSE {NoAnnotations} :
               /\ annotations' = result
               /\ Return([calls EXCEPT ![Len(calls)].outcome = o],
                         imageResponse(visionReturns(o, result)))
    /\ UNCHANGED <<endpoint, body, request, tmdb_key, vision_key, parserVars>>

\* the timeout of the call in flight expires: requests raises Timeout
TimeoutExpires ==
    /\ pc = "wait"
    /\ Timeout(inflight) # None
    /\ IF endpoint = "lookup_barcode"
       THEN lookupReturns("timeout") /\ annotations' = annotations
       ELSE /\ annotations' = NoAnnotations
            /\ Return([calls EXCEPT ![Len(calls)].outcome = "timeout"],
                      imageResponse(visionReturns("timeout", NoAnnotations)))
    /\ UNCHANGED <<endpoint, body, request, tmdb_key, vision_key, parserVars>>

\* the server takes the next request
NextRequest ==
    /\ pc = "done"
    /\ pc' = "idle"
    /\ endpoint' = "none"
    /\ body' = "null"
    /\ request' = Absent
    /\ calls' = <<>>
    /\ response' = NoResponse
    /\ annotations' = NoAnnotations
    /\ UNCHANGED <<tmdb_key, vision_key, parserVars>>

(***************************************************************************)
(* The parser on its own.                                                  *)
(***************************************************************************)
\* parse_media_text is applied to the text
ParseMediaText ==
    /\ ~ parsed
    /\ extracted' = parse_media_text(text)
    /\ parsed' = TRUE
    /\ UNCHANGED <<text, handlerVars>>

(***************************************************************************)
(* Specifications.                                                         *)
(***************************************************************************)
Idle ==
    /\ pc = "idle"
    /\ endpoint = "none"
    /\ body = "null"
    /\ request = Absent
    /\ calls = <<>>
    /\ response = NoResponse
    /\ annotations = NoAnnotations

Init ==
    /\ Idle
    /\ tmdb_key \in Keys
    /\ vision_key \in Keys
    /\ text = <<>>
    /\ extracted = NoExtracted
    /\ parsed = FALSE

Next ==
    \/ LookupBarcode
    \/ ProviderResponds
    \/ ProcessImage
    \/ VisionResponds
    \/ TimeoutExpires
    \/ NextRequest

Spec == Init /\ [][Next]_vars

\* The handler runs whenever it can and a timeout that is set expires; a
\* provider is never obliged to answer.
FairSpec ==
    /\ Spec
    /\ WF_vars(TimeoutExpires)
    /\ WF_vars(NextRequest)

ParseInit ==
    /\ Idle
    /\ tmdb_key = None
    /\ vision_key = None
    /\ text \in Texts
    /\ extracted = NoExtracted
    /\ parsed = FALSE

ParseNext == ParseMediaText

ParseSpec == ParseInit /\ [][ParseNext]_vars

(***************************************************************************)
(* Properties of the barcode path.                                         *)
(***************************************************************************)
Failures == {"exception", "timeout", "non_ok", "malformed", "empty"}

\* a request to /lookup_barcode whose barcode is a string
BarcodeRequest == endpoint = "lookup_barcode" /\ request.kind = "str"

\* the barcode's length after strip()
StrippedLen == Len(strip(request.value))

\* the providers in the order book chain (two catalogs), audio, video
ChainOrder == <<"google_books", "openlibrary", "musicbrainz", "tmdb">>

\* the media type a provider's result is reported with
CandidateType(p) ==
    CASE p \in {"google_books", "openlibrary"} -> "book"
      [] p = "musicbrainz" -> "audio"
      [] p = "tmdb" -> "video"

\* C1: for a barcode of stripped length 13 the providers are called in the
\* order book chain, audio, video, each only after the one before it gave
\* nothing; a provider that matches is the last one called and decides the
\* media type; NotFound is answered only after every candidate was tried.
C1_OrderAndStop ==
    (BarcodeRequest /\ StrippedLen = 13) =>
        /\ Len(calls) <= Len(ChainOrder)
        /\ \A i \in 1..Len(calls) :
               /\ calls[i].provider = ChainOrder[i]
               /\ i < Len(calls) => calls[i].outcome \in Failures
               /\ calls[i].outcome = "match" =>
                      /\ i = Len(calls)
                      /\ pc = "done"
                      /\ response.status = 200
                      /\ response.body[1].media_type =
                             CandidateType(calls[i].provider)
        /\ (pc = "done" /\ response.status = 404) =>
               Len(calls) = IF truthy(tmdb_key) THEN 4 ELSE 3

\* the audio provider matched a 13-character barcode: the book chain was
\* tried before it and the video provider was not called
C1_Witness ==
    /\ BarcodeRequest /\ StrippedLen = 13
    /\ pc = "done"
    /\ truthy(tmdb_key)
    /\ Len(calls) = 3
    /\ calls[3].provider = "musicbrainz"
    /\ calls[3].outcome = "match"
    /\ response.body[1].media_type = "audio"

\* C2: a string whose stripped length is not 10, 12 or 13 is answered
\* NotFound (404; the empty string is refused with 400 before the lookup)
\* and no provider is called.
C2_OtherLengthsNoCall ==
    (BarcodeRequest /\ StrippedLen \notin {10, 12, 13}) =>
        /\ calls = <<>>
        /\ pc = "done"
        /\ response.status = IF request.value = <<>> THEN 400 ELSE 404

\* a 13-character string that strips to 11 characters was answered 404
C2_Witness ==
    /\ BarcodeRequest
    /\ Len(request.value) = 13
    /\ StrippedLen = 11
    /\ pc = "done"
    /\ response.status = 404
    /\ calls = <<>>

\* the provider the chain goes on with after p gave nothing ("none": the
\* chain is at its end)
NextCandidate(p) ==
    CASE p = "google_books" -> "openlibrary"
      [] p = "openlibrary" ->
           IF StrippedLen \in {12, 13} THEN "musicbrainz" ELSE "none"
      [] p = "musicbrainz" -> IF truthy(tmdb_key) THEN "tmdb" ELSE "none"
      [] p = "tmdb" -> "none"

\* C3: whatever way the providers fail, a string barcode is never answered
\* 500: after a failed provider the next candidate is called, and after the
\* last one the answer is 404.
C3_FailuresNotSurfaced ==
    BarcodeRequest =>
        /\ response.status # 500
        /\ pc = "done" => response.status \in {200, 400, 404}
        /\ \A i \in 1..Len(calls) :
               calls[i].outcome \in Failures =>
                   IF NextCandidate(calls[i].provider) = "none"
                   THEN /\ i = Len(calls)
                        /\ pc = "done"
                        /\ response.status = 404
                   ELSE /\ i < Len(calls)
                        /\ calls[i + 1].provider =
                               NextCandidate(calls[i].provider)

\* four providers failed in four ways and the answer is 404
C3_Witness ==
    /\ BarcodeRequest
    /\ pc = "done"
    /\ Len(calls) = 4
    /\ calls[1].outcome = "exception"
    /\ calls[2].outcome = "non_ok"
    /\ calls[3].outcome = "malformed"
    /\ calls[4].outcome = "timeout"
    /\ response.status = 404

\* C4: every external call is bounded by a timeout, so every request whose
\* handler waits for a provider is eventually answered.
C4_EveryRequestReturns == (pc = "wait") ~> (pc = "done")

\* the part of C4 about the barcode path
C4_BarcodeRequestReturns ==
    (pc = "wait" /\ endpoint = "lookup_barcode") ~> (pc = "done")

(***************************************************************************)
(* Properties of the photo path.                                           *)
(***************************************************************************)
\* C5: without a vision key a request to /process_image whose body the route
\* can read (data.get does not raise) makes no network
\* call and is answered with an error: 500 and the configuration message
\* whatever the image, 400 when the image is missing.
C5_NoKeyNoCall ==
    (endpoint = "process_image" /\ ~ truthy(vision_key)
        /\ ~ getRaises(body, request)) =>
        /\ calls = <<>>
        /\ pc = "done"
        /\ response.body = None
        /\ IF falsy(request)
           THEN response.status = 400
           ELSE /\ response.status = 500
                /\ response.error = "Google Vision API key not configured"

\* an image that does not decode, with the key set to the empty string
C5_Witness ==
    /\ endpoint = "process_image"
    /\ vision_key = Some(<<>>)
    /\ request.kind = "str"
    /\ decodeRaises(request.value)
    /\ request.value # <<>>
    /\ response.status = 500
    /\ response.error = "Google Vision API key not configured"

Min(S) == CHOOSE x \in S : \A y \in S : x <= y

\* /process_image answered 200 with an envelope
PhotoAnswered ==
    endpoint = "process_image" /\ pc = "done" /\ response.status = 200

\* the types whose keyword set occurs in the lower-cased name
KeywordTypes(name) ==
    LET n == lower(name)
    IN  { t \in {"book", "audio", "video"} :
            \/ t = "book" /\ contains(n, KW_book)
            \/ t = "audio" /\ (contains(n, KW_cd) \/ contains(n, KW_disc))
            \/ t = "video" /\ (contains(n, KW_dvd) \/ contains(n, KW_bluray)
                               \/ contains(n, KW_video)) }

\* KeywordTypes of every label name, as a table
TypesOf == [n \in LabelNames |-> KeywordTypes(n)]

\* the type of a label: a name of several keyword sets is a book before
\* it is audio, and audio before it is video
LabelType(name) ==
    IF "book" \in TypesOf[name] THEN "book"
    ELSE IF "audio" \in TypesOf[name] THEN "audio"
    ELSE "video"

\* the positions of the labels that match a keyword
Matching(objs) == { i \in 1..Len(objs) : TypesOf[objs[i].name] # {} }

\* the positions of S with the highest score
Highest(objs, S) == { i \in S : \A j \in S : objs[j].score <= objs[i].score }

\* C6 as claimed: the envelope's media type is that of a highest-scoring
\* keyword-matching label, and null when no label matches a keyword.
C6_HighestOrNull ==
    PhotoAnswered =>
        LET objs == annotations.objects
            m == Matching(objs)
        IN  IF m = {}
            THEN response.body[1].media_type = "None"
            ELSE \E i \in Highest(objs, m) :
                     response.body[1].media_type \in TypesOf[objs[i].name]

\* C6 as amended: the envelope's media type is that of a highest-scoring
\* label among the keyword-matching labels of positive score, and "book"
\* when there is no such label.
C6_HighestOrBook ==
    PhotoAnswered =>
        LET objs == annotations.objects
            m == { i \in Matching(objs) : objs[i].score > 0 }
        IN  IF m = {}
            THEN response.body[1].media_type = "book"
            ELSE \E i \in Highest(objs, m) :
                     response.body[1].media_type \in TypesOf[objs[i].name]

\* a later label of a higher score decided the type
C6_Witness ==
    /\ PhotoAnswered
    /\ annotations.objects =
           <<[name |-> N_Book, score |-> 1], [name |-> N_DVDCase, score |-> 2]>>
    /\ response.body[1].media_type = "video"

\* C7: a label replaces the running best only if its score is strictly
\* greater, so among the keyword-matching labels that share the highest
\* score the earliest one gives the media type, whatever their order.
C7_TieKeepsEarlier ==
    PhotoAnswered =>
        LET objs == annotations.objects
            top == Highest(objs, { i \in Matching(objs) : objs[i].score > 0 })
        IN  /\ \A n \in 1..Len(objs) :
                   LET before == classify(SubSeq(objs, 1, n - 1))
                   IN  classifyStep(before, objs[n]) # before =>
                           objs[n].score > before.confidence
            /\ top # {} =>
                   response.body[1].media_type = LabelType(objs[Min(top)].name)

\* a DVD label before a book label of the same score: the type is video
C7_Witness ==
    /\ PhotoAnswered
    /\ annotations.objects =
           <<[name |-> N_DVDCase, score |-> 2], [name |-> N_Book, score |-> 2]>>
    /\ response.body[1].media_type = "video"

(***************************************************************************)
(* Properties of parse_media_text.                                         *)
(***************************************************************************)
\* the positions of the lines that satisfy P
LinesWhere(lines, P(_)) == { i \in 1..Len(lines) : P(lines[i]) }

\* the line holds a run matching the year pattern
HasYear(line) == \E i \in 1..Len(line) : yearMatchAt(line, i)

\* the four characters of the first match of the year pattern in the line
FirstYear(line) ==
    LET i == Min({ k \in 1..Len(line) : yearMatchAt(line, k) })
    IN  SubSeq(line, i, i + 3)

\* C8: the year is the first match of the year pattern in the first line
\* that holds one, all four digits of it, and is absent when no line holds
\* one.
C8_YearIsFirstFullMatch ==
    parsed =>
        LET lines == splitLines(text)
            ys == LinesWhere(lines, HasYear)
        IN  extracted.year =
                IF ys = {} THEN None ELSE Some(FirstYear(lines[Min(ys)]))

\* C8 on the text "Copyright 1999 Jane Doe, published 2005"
C8_Example ==
    (parsed /\ text = L_Copyright1999) =>
        extracted.year = Some(<<"1", "9", "9", "9">>)

\* the line contains "by " in any case, or is two tokens without a digit
IsAuthorCandidate(line) ==
    \/ contains(lower(line), S_by)
    \/ /\ Len(split(line)) = 2
       /\ \A i \in 1..Len(line) : line[i] \notin DigitChars

\* C9: the author comes from the first candidate line and from no later
\* one; there is no author when no line is a candidate.
C9_FirstCandidateWins ==
    parsed =>
        LET lines == splitLines(text)
            cs == LinesWhere(lines, IsAuthorCandidate)
        IN  /\ extracted.author =
                   IF cs = {} THEN None ELSE Some(authorValue(lines[Min(cs)]))
            /\ text = T_AuthorExample => extracted.author = Some(L_JaneDoe)

\* "Jane Doe" is taken although "by John Smith" follows
C9_Witness ==
    /\ parsed
    /\ text = T_AuthorExample
    /\ extracted.author = Some(L_JaneDoe)

\* the line without a leading "by ", trimmed
WithoutLeadingBy(line) ==
    strip(IF startswith(line, S_by)
          THEN SubSeq(line, Len(S_by) + 1, Len(line))
          ELSE line)

\* C10: the stored author is the author line with a leading "by " and the
\* surrounding whitespace removed, and nothing else changed.
C10_OnlyLeadingByRemoved ==
    parsed =>
        LET lines == splitLines(text)
            cs == LinesWhere(lines, IsAuthorCandidate)
        IN  cs # {} =>
                extracted.author = Some(WithoutLeadingBy(lines[Min(cs)]))

\* the line is one of the three kinds that are never a title, in any case
ExcludedPrefix(line) ==
    \E pre \in {S_isbn, S_by, S_copyright} :
        /\ Len(line) >= Len(pre)
        /\ lower(SubSeq(line, 1, Len(pre))) = pre

\* the positions of the title candidates among the trimmed non-empty lines
TitleCandidates(lines) ==
    { i \in 1..Len(lines) : Len(lines[i]) >= 11 /\ ~ ExcludedPrefix(lines[i]) }

\* C11: the title candidates are the trimmed non-empty lines of more than
\* 10 characters (10 is excluded, 11 is eligible) that do not start with
\* "isbn", "by " or "copyright" in any case; the title is the longest
\* candidate, the earliest of the longest ones, and absent without candidate.
C11_LongestFirstCandidate ==
    parsed =>
        LET lines == splitLines(text)
            cand == TitleCandidates(lines)
            longest == { i \in cand :
                           \A j \in cand : Len(lines[j]) <= Len(lines[i]) }
        IN  /\ extracted.title =
                   IF cand = {} THEN None ELSE Some(lines[Min(longest)])
            /\ text = L_Ten => extracted.title = None
            /\ text = L_Eleven => extracted.title = Some(L_Eleven)

\* two candidates of 14 characters: the first one is the title
C11_Witness ==
    /\ parsed
    /\ text = joinLines(<<L_TheOtherBook, L_TheGreatBook>>)
    /\ extracted.title = Some(L_TheOtherBook)

(***************************************************************************)
(* Properties of the two routes.                                           *)
(***************************************************************************)
\* a request to one of the two routes whose body carries no field
FieldMissing ==
    /\ endpoint \in {"lookup_barcode", "process_image"}
    /\ request.kind = "absent"

\* C12: a request to /lookup_barcode without the barcode field, or to
\* /process_image without the image field, is answered 400 whatever the
\* shape of its JSON body, and no provider or vision call is made for it.
C12_MissingFieldIs400 ==
    FieldMissing =>
        /\ pc = "done"
        /\ response.status = 400
        /\ calls = <<>>

\* the part of C12 about the calls, and about the bodies "if data" rejects
C12_MissingFieldNoCall ==
    FieldMissing =>
        /\ pc = "done"
        /\ calls = <<>>
        /\ response.status = IF getRaises(body, request) THEN 500 ELSE 400

(***************************************************************************)
(* Properties of the lookup chain.                                         *)
(***************************************************************************)
\* the two catalogs of the book chain
Catalogs == {"google_books", "openlibrary"}

\* the field of the 200 answer was built from provider p's payload
FromCatalog(p) ==
    /\ response.body[1].title = Some(<<p, "title">>)
    /\ response.body[1].author = Some(<<p, "author">>)
    /\ response.body[1].publisher = Some(<<p, "publisher">>)
    /\ response.body[1].year = Some(<<p, "year">>)
    /\ response.body[1].isbn = Some(strip(request.value))

\* C13: in lookup_isbn OpenLibrary is queried if and only if Google Books
\* gave nothing; a record of Google Books is returned without a call to
\* OpenLibrary; the returned record is that of one catalog, never a mix.
C13_SecondCatalogIffFirstNothing ==
    BarcodeRequest =>
        /\ \A i \in 1..Len(calls) :
               calls[i].provider = "openlibrary" =>
                   /\ i = 2
                   /\ calls[1].provider = "google_books"
                   /\ calls[1].outcome \in Failures
        /\ (calls # <<>> /\ calls[1].provider = "google_books") =>
               /\ calls[1].outcome \in Failures =>
                      Len(calls) >= 2 /\ calls[2].provider = "openlibrary"
               /\ calls[1].outcome = "match" =>
                      /\ Len(calls) = 1
                      /\ pc = "done"
                      /\ response.status = 200
                      /\ FromCatalog("google_books")
        /\ (pc = "done" /\ response.status = 200
              /\ calls[Len(calls)].provider \in Catalogs) =>
               /\ FromCatalog(calls[Len(calls)].provider)
               /\ \A i \in 1..(Len(calls) - 1) : calls[i].outcome # "match"

\* Google Books held no volume, OpenLibrary matched: its record is returned
C13_Witness ==
    /\ BarcodeRequest
    /\ pc = "done"
    /\ Len(calls) = 2
    /\ calls[1].provider = "google_books" /\ calls[1].outcome = "empty"
    /\ calls[2].provider = "openlibrary" /\ calls[2].outcome = "match"
    /\ response.status = 200
    /\ FromCatalog("openlibrary")

\* the providers that are candidates for a stripped length
CandidatesFor(n) ==
    (IF n \in {10, 13} THEN Catalogs ELSE {})
        \cup (IF n \in {12, 13} THEN {"musicbrainz", "tmdb"} ELSE {})

\* C14: one resolution calls only the candidates of the stripped length
\* (10: the book chain only; 12: audio then video, never the book chain),
\* calls no endpoint twice whatever fails, and so makes at most four calls.
C14_CandidatesOnlyOnce ==
    BarcodeRequest =>
        /\ \A i \in 1..Len(calls) :
               calls[i].provider \in CandidatesFor(StrippedLen)
        /\ \A i, j \in 1..Len(calls) :
               i # j => calls[i].provider # calls[j].provider
        /\ Len(calls) <= 4
        /\ (StrippedLen = 12 /\ calls # <<>>) =>
               /\ calls[1].provider = "musicbrainz"
               /\ Len(calls) >= 2 => calls[2].provider = "tmdb"
        /\ StrippedLen = 10 => Len(calls) <= 2

\* a padded barcode of 12 characters: audio failed, video failed, 404
C14_Witness ==
    /\ BarcodeRequest
    /\ StrippedLen = 12
    /\ Len(request.value) = 14
    /\ pc = "done"
    /\ Len(calls) = 2
    /\ calls[1].provider = "musicbrainz" /\ calls[1].outcome = "exception"
    /\ calls[2].provider = "tmdb" /\ calls[2].outcome = "timeout"
    /\ response.status = 404

(***************************************************************************)
(* Properties of the classification loop.                                  *)
(***************************************************************************)
\* C15: the running media type and the running confidence change together:
\* after every label the confidence is 0 exactly when no label was
\* selected, and otherwise is the score of a label of the running type; in
\* the answer the confidence is the score of the label that gave the media
\* type, and is 0 exactly when no keyword-matching label has a positive
\* score (a matching label of score 0 is never selected).
C15_ConfidenceIsSelectedScore ==
    PhotoAnswered =>
        LET objs == annotations.objects
            sel == { i \in Matching(objs) : objs[i].score > 0 }
            top == Highest(objs, sel)
        IN  /\ \A n \in 0..Len(objs) :
                   LET b == classify(SubSeq(objs, 1, n))
                   IN  /\ (b.media_type = "None") <=> (b.confidence = 0)
                       /\ b.media_type # "None" =>
                              \E i \in 1..n :
                                  /\ objs[i].score = b.confidence
                                  /\ LabelType(objs[i].name) = b.media_type
                                  /\ i \in sel
            /\ response.body[1].confidence =
                   IF top = {} THEN 0 ELSE objs[Min(top)].score
            /\ top # {} =>
                   response.body[1].media_type = LabelType(objs[Min(top)].name)
            /\ (response.body[1].confidence = 0) <=> (sel = {})

\* a CD label of score 0 is passed over, the DVD label of score 1 is taken
C15_Witness ==
    /\ PhotoAnswered
    /\ annotations.objects =
           <<[name |-> N_CD, score |-> 0], [name |-> N_DVDCase, score |-> 1]>>
    /\ response.body[1].media_type = "video"
    /\ response.body[1].confidence = 1

====
